---- MODULE Spec2Model ----
(***************************************************************************)
(* Day 16 of illBeRoy/advent-2022 ("Proboscidea Volcanium"),               *)
(* src/src/days/day_16.rs: the distance table built by breadth-first       *)
(* search, the reduced valve map, the recursive score search               *)
(* find_max_score, and the two tasks that drive them.                      *)
(*                                                                         *)
(* A run of the program executes one task (main.rs matches on args.task):  *)
(* it parses the input into a Vec<Valve>, builds the distance table, and   *)
(* searches.  The state machine follows that: "parsed" -> "mapped" (or     *)
(* "panicked") -> "done" (or "search_panicked").                           *)
(***************************************************************************)
EXTENDS Integers, Sequences, FiniteSets

VARIABLES
    valves,      \* Vec<Valve> returned by parse_input_into_valves
    task,        \* args.task: 1 or 2
    pc,          \* "parsed", "mapped", "panicked", "searching", "done",
                 \* "search_panicked"
    iter_order,  \* iteration order of valves_graph.values() in this run
    distances,   \* HashMap<String, u8> returned by find_distances_between_valves
    minutes,     \* the time budget handed to find_max_score by the task
    max_score,   \* the number the task formats into its answer
    calls,       \* task 2: the calls of explore_division_of_labor made
    stack        \* the frames of find_max_score, where the search is run
                 \* call by call (SpecSteps); the innermost call is last

vars == <<valves, task, pc, iter_order, distances, minutes, max_score, calls,
          stack>>

(***************************************************************************)
(* Bounds of the model and constants of the program.                       *)
(***************************************************************************)
MaxFlow == 2        \* flow rates of the enumerated inputs are 0..MaxFlow
MaxBudget == 6      \* budgets 0..MaxBudget are tried besides 30 and 26
MaxFullOrder == 4   \* up to this many valves every iteration order is tried
MaxTunnels == 2     \* tunnels per valve in the inputs of the distance table

Task1Minutes == 30  \* day_16.rs:59
Task2Minutes == 26  \* day_16.rs:108
Start == "AA"       \* day_16.rs:52, 59, 79, 93, 102, 108

NoPath == -1        \* stands for the panic at day_16.rs:239

Budgets == (0 .. MaxBudget) \cup {Task1Minutes, Task2Minutes}

\* u8 arithmetic as a release build does it (a debug build panics where
\* these wrap)
U8 == 256

Add8(a, b) == (a + b) % U8

Sub8(a, b) == (a - b) % U8

(***************************************************************************)
(* Small helpers.                                                          *)
(***************************************************************************)
Range(s) == {s[i] : i \in DOMAIN s}

Max(S) == CHOOSE m \in S : \A n \in S : n <= m

Min(S) == CHOOSE m \in S : \A n \in S : m <= n

RECURSIVE SetToSeq(_)
SetToSeq(S) ==
    IF S = {} THEN <<>>
    ELSE LET e == CHOOSE e \in S : TRUE IN <<e>> \o SetToSeq(S \ {e})

Ids(vs) == {vs[i].id : i \in DOMAIN vs}

IdSeq(vs) == [i \in DOMAIN vs |-> vs[i].id]

\* every arrangement of the elements of the set S in a sequence
Arrangements(S) ==
    {f \in [1 .. Cardinality(S) -> S] : \A i, j \in DOMAIN f : i # j => f[i] # f[j]}

\* s rotated left by k
Rotate(s, k) == [i \in DOMAIN s |-> s[((i + k - 1) % Len(s)) + 1]]

Reverse(s) == [i \in DOMAIN s |-> s[Len(s) + 1 - i]]

(***************************************************************************)
(* The valve graph.                                                        *)
(***************************************************************************)

\* struct Valve
Valve(id, flow_rate, leads_to) ==
    [id |-> id, flow_rate |-> flow_rate, leads_to |-> leads_to]

\* valves_graph: HashMap<String, &Valve>, keyed by id
ValvesGraph(vs) == [id \in Ids(vs) |-> (CHOOSE v \in Range(vs) : v.id = id)]

\* format!("{}->{}", from, to)
Key(from, to) == from \o "->" \o to

(***************************************************************************)
(* find_distance: breadth-first search over the whole graph.  The queue    *)
(* holds (distance, node) pairs; a node is marked visited when pushed.     *)
(* The order in which the neighbours of a node are pushed is the HashSet's *)
(* iteration order; it permutes nodes inside one BFS level only, so the    *)
(* returned distance does not depend on it and one order is taken.         *)
(***************************************************************************)
RECURSIVE Bfs(_, _, _, _)
Bfs(graph, to, q, visited) ==
    IF q = <<>> THEN NoPath
    ELSE LET distance == Head(q)[1]
             node_id == Head(q)[2]
         IN  IF node_id = to THEN distance
             ELSE LET fresh == SetToSeq(graph[node_id].leads_to \ visited)
                      pushed == [i \in DOMAIN fresh |-> <<Add8(distance, 1), fresh[i]>>]
                  IN  Bfs(graph, to, Tail(q) \o pushed, visited \cup Range(fresh))

FindDistance(graph, from, to) == Bfs(graph, to, <<<<0, from>>>>, {from})

(***************************************************************************)
(* find_distances_between_valves.  itertools' permutations(2) yields the   *)
(* index pairs (i, j), i # j, in lexicographic order over the iteration    *)
(* order of valves_graph.values().  The flat_map turns pair number k,      *)
(* (a, b), into two items, ("a->b", d) and ("b->a", d), both with the      *)
(* distance d from a to b; collect() inserts the items in order, so the    *)
(* value a key ends with is the one of the LAST item that has this key.    *)
(* A pair without a path panics (find_distance, day_16.rs:239).            *)
(***************************************************************************)
Permutations2(order) ==
    LET n == Len(order)
        idx == [k \in 1 .. n * (n - 1) |->
                  LET i == ((k - 1) \div (n - 1)) + 1
                      r == ((k - 1) % (n - 1)) + 1
                      j == IF r < i THEN r ELSE r + 1
                  IN  <<order[i], order[j]>>]
    IN  IF n < 2 THEN <<>> ELSE idx

\* FlatMapItems without the reverse entry: each pair yields its own key twice
FlatMapItemsForwardOnly(pairs) ==
    [m \in 1 .. 2 * Len(pairs) |->
        LET p == pairs[(m + 1) \div 2]
        IN  [key |-> Key(p[1], p[2]), a |-> p[1], b |-> p[2]]]

\* the items of the flat_map, in order, each with the pair it comes from
FlatMapItems(pairs) ==
    [m \in 1 .. 2 * Len(pairs) |->
        LET p == pairs[(m + 1) \div 2]
        IN  IF m % 2 = 1 THEN [key |-> Key(p[1], p[2]), a |-> p[1], b |-> p[2]]
            ELSE [key |-> Key(p[2], p[1]), a |-> p[1], b |-> p[2]]]

\* collect::<HashMap<_, _>>(): the last item of each key stays
Collect(graph, items) ==
    [key \in {items[m].key : m \in DOMAIN items} |->
        LET last == Max({m \in DOMAIN items : items[m].key = key})
        IN  FindDistance(graph, items[last].a, items[last].b)]

FindDistancesBetweenValves(vs, order) ==
    LET graph == ValvesGraph(vs)
        pairs == Permutations2(order)
    IN  [panicked |-> \E k \in DOMAIN pairs :
                         FindDistance(graph, pairs[k][1], pairs[k][2]) = NoPath,
         table |-> Collect(graph, FlatMapItems(pairs))]

\* the iteration orders of a HashMap over these ids (RandomState: any order);
\* beyond MaxFullOrder valves, the rotations of the input order and of its reverse
HashOrders(vs) ==
    IF Len(vs) <= MaxFullOrder THEN Arrangements(Ids(vs))
    ELSE {Rotate(IdSeq(vs), k) : k \in 0 .. Len(vs) - 1}
         \cup {Rotate(Reverse(IdSeq(vs)), k) : k \in 0 .. Len(vs) - 1}

(***************************************************************************)
(* ValveMap.                                                               *)
(***************************************************************************)
ValveMapFrom(vs, dist) ==
    [valves |-> [id \in Ids(vs) |-> (CHOOSE v \in Range(vs) : v.id = id)],
     distances |-> dist]

GetDistance(map, from, to) == map.distances[Key(from, to)]

GetFlowRate(map, valve) == map.valves[valve].flow_rate

ListAllValves(map) == DOMAIN map.valves

(***************************************************************************)
(* find_max_score.                                                         *)
(***************************************************************************)
\* find_max_score with the feasibility filter off by one:
\* distance <= minutes_left instead of distance + 1 <= minutes_left
RECURSIVE FindMaxScoreLateFilter(_, _, _)
FindMaxScoreLateFilter(cur_path, map, minutes_left) ==
    LET cur_valve == cur_path[Len(cur_path)]
        possible_next_valves ==
            {v \in ListAllValves(map) :
                /\ v \notin Range(cur_path)
                /\ GetDistance(map, cur_valve, v) <= minutes_left}
        my_score == GetFlowRate(map, cur_valve) * minutes_left
        scores ==
            {FindMaxScoreLateFilter(
                 cur_path \o <<next>>, map,
                 Sub8(Sub8(minutes_left, GetDistance(map, cur_valve, next)), 1)) :
                next \in possible_next_valves}
    IN  my_score + (IF scores = {} THEN 0 ELSE Max(scores))

\* find_max_score that counts the minute of arrival as a minute of flow
RECURSIVE FindMaxScoreCountsArrival(_, _, _)
FindMaxScoreCountsArrival(cur_path, map, minutes_left) ==
    LET cur_valve == cur_path[Len(cur_path)]
        possible_next_valves ==
            {v \in ListAllValves(map) :
                /\ v \notin Range(cur_path)
                /\ Add8(GetDistance(map, cur_valve, v), 1) <= minutes_left}
        my_score == GetFlowRate(map, cur_valve) * (minutes_left + 1)
        scores ==
            {FindMaxScoreCountsArrival(
                 cur_path \o <<next>>, map,
                 Sub8(Sub8(minutes_left, GetDistance(map, cur_valve, next)), 1)) :
                next \in possible_next_valves}
    IN  my_score + (IF scores = {} THEN 0 ELSE Max(scores))

\* cur_path.last()
CurValve(cur_path) == cur_path[Len(cur_path)]

\* possible_next_valves with the first valve of the path not counted as
\* visited
PossibleNextValvesForgetsStart(cur_path, map, minutes_left) ==
    {v \in ListAllValves(map) :
        /\ v # CurValve(cur_path)
        /\ v \notin Range(Tail(cur_path))
        /\ Add8(GetDistance(map, CurValve(cur_path), v), 1) <= minutes_left}

\* possible_next_valves of one call
PossibleNextValves(cur_path, map, minutes_left) ==
    {v \in ListAllValves(map) :
        /\ v \notin Range(cur_path)
        /\ Add8(GetDistance(map, CurValve(cur_path), v), 1) <= minutes_left}

\* minutes_left - distance - 1, the time handed to the call for `next`
MinutesLeftAfter(cur_path, map, minutes_left, next) ==
    Sub8(Sub8(minutes_left, GetDistance(map, CurValve(cur_path), next)), 1)

RECURSIVE FindMaxScore(_, _, _)
FindMaxScore(cur_path, map, minutes_left) ==
    LET cur_valve == CurValve(cur_path)
        possible_next_valves == PossibleNextValves(cur_path, map, minutes_left)
        my_score == GetFlowRate(map, cur_valve) * minutes_left
        scores ==
            {FindMaxScore(cur_path \o <<next>>, map,
                          MinutesLeftAfter(cur_path, map, minutes_left, next)) :
                next \in possible_next_valves}
    IN  my_score + (IF scores = {} THEN 0 ELSE Max(scores))

\* the calls of find_max_score made by one call of it, itself included:
\* the arguments cur_path and minutes_left of each
RECURSIVE SearchCalls(_, _, _)
SearchCalls(cur_path, map, minutes_left) ==
    {[cur_path |-> cur_path, minutes_left |-> minutes_left]}
    \cup UNION {SearchCalls(cur_path \o <<next>>, map,
                            MinutesLeftAfter(cur_path, map, minutes_left, next)) :
                   next \in PossibleNextValves(cur_path, map, minutes_left)}

\* the u8 operations of find_max_score that leave 0 .. 255 somewhere in the
\* call tree: a build with overflow checks (cargo's dev profile) panics
\* there with "attempt to add/subtract with overflow", a build without them
\* (the release profile) wraps around as Add8 and Sub8 do
RECURSIVE FindMaxScoreOverflows(_, _, _)
FindMaxScoreOverflows(cur_path, map, minutes_left) ==
    LET cur_valve == CurValve(cur_path)
        unvisited == {v \in ListAllValves(map) : v \notin Range(cur_path)}
        possible_next_valves == PossibleNextValves(cur_path, map, minutes_left)
    IN  \/ \E v \in unvisited : GetDistance(map, cur_valve, v) + 1 >= U8
        \/ \E next \in possible_next_valves :
              minutes_left - GetDistance(map, cur_valve, next) - 1 < 0
        \/ \E next \in possible_next_valves :
              FindMaxScoreOverflows(
                  cur_path \o <<next>>, map,
                  MinutesLeftAfter(cur_path, map, minutes_left, next))

(***************************************************************************)
(* The tasks.                                                              *)
(***************************************************************************)
\* day_16.rs:49-53 and 76-80
RelevantValves(vs) == SelectSeq(vs, LAMBDA v : v.id = Start \/ v.flow_rate > 0)

\* day_16.rs:71-75
WorkingValves(vs) == SelectSeq(vs, LAMBDA v : v.flow_rate > 0)

SolveSingleAgent(vs, dist, budget) ==
    FindMaxScore(<<Start>>, ValveMapFrom(RelevantValves(vs), dist), budget)

SingleAgentOverflows(vs, dist, budget) ==
    FindMaxScoreOverflows(<<Start>>, ValveMapFrom(RelevantValves(vs), dist), budget)

\* explore_division_of_labor with the elephant's map filtered by my_valves
ExploreDivisionOfLaborMineTwice(my_valves, elephant_valves, working_valves, dist, budget) ==
    LET my_map ==
            ValveMapFrom(SelectSeq(working_valves,
                                   LAMBDA v : v.id = Start \/ v.id \in my_valves),
                         dist)
    IN  FindMaxScore(<<Start>>, my_map, budget)
        + FindMaxScore(<<Start>>, my_map, budget)

\* my_map and elephant_map, both filtered by my_valves
DivisionMapsMineTwice(my_valves, elephant_valves, working_valves, dist) ==
    LET my_map ==
            ValveMapFrom(SelectSeq(working_valves,
                                   LAMBDA v : v.id = Start \/ v.id \in my_valves),
                         dist)
    IN  [my_map |-> my_map, elephant_map |-> my_map]

\* my_map and elephant_map of explore_division_of_labor
DivisionMaps(my_valves, elephant_valves, working_valves, dist) ==
    [my_map |->
        ValveMapFrom(SelectSeq(working_valves,
                               LAMBDA v : v.id = Start \/ v.id \in my_valves),
                     dist),
     elephant_map |->
        ValveMapFrom(SelectSeq(working_valves,
                               LAMBDA v : v.id = Start \/ v.id \in elephant_valves),
                     dist)]

ExploreDivisionOfLabor(my_valves, elephant_valves, working_valves, dist, budget) ==
    LET maps == DivisionMaps(my_valves, elephant_valves, working_valves, dist)
    IN  FindMaxScore(<<Start>>, maps.my_map, budget)
        + FindMaxScore(<<Start>>, maps.elephant_map, budget)

ExploreDivisionOverflows(my_valves, elephant_valves, working_valves, dist, budget) ==
    LET maps == DivisionMaps(my_valves, elephant_valves, working_valves, dist)
    IN  \/ FindMaxScoreOverflows(<<Start>>, maps.my_map, budget)
        \/ FindMaxScoreOverflows(<<Start>>, maps.elephant_map, budget)

\* itertools' permutations(k) of the ids: the k-tuples of distinct ids
Permutations(ids, k) ==
    {p \in [1 .. k -> ids] : \A i, j \in 1 .. k : i # j => p[i] # p[j]}

\* (1..=working_valves.len() / 2): the elephant always gets a valve
ElephantWorkSizesFromOne(n) == 1 .. (n \div 2)

\* (0..working_valves.len() / 2) without its upper end
ElephantWorkSizesExclusive(n) == 0 .. ((n \div 2) - 1)

\* (0..=working_valves.len() / 2)
ElephantWorkSizes(n) == 0 .. (n \div 2)

\* the (my_valves, elephant_valves) pairs task_2 hands to
\* explore_division_of_labor, one per permutation, with the score returned
DivisionCalls(vs, dist, budget) ==
    LET working == Ids(WorkingValves(vs))
        n == Len(WorkingValves(vs))
    IN  {[perm |-> perm,
          mine |-> working \ Range(perm),
          theirs |-> working \cap Range(perm),
          score |-> ExploreDivisionOfLabor(working \ Range(perm),
                                           working \cap Range(perm),
                                           RelevantValves(vs), dist, budget)] :
            perm \in UNION {Permutations(working, k) : k \in ElephantWorkSizes(n)}}

\* both folds start from 0 and keep the larger value
FoldMax(cs) == Max({0} \cup {c.score : c \in cs})

SolveTwoAgent(vs, dist, budget) == FoldMax(DivisionCalls(vs, dist, budget))

TwoAgentOverflows(vs, dist, budget) ==
    LET working == Ids(WorkingValves(vs))
        n == Len(WorkingValves(vs))
    IN  \E perm \in UNION {Permutations(working, k) : k \in ElephantWorkSizes(n)} :
            ExploreDivisionOverflows(working \ Range(perm),
                                     working \cap Range(perm),
                                     RelevantValves(vs), dist, budget)

(***************************************************************************)
(* Inputs.                                                                 *)
(***************************************************************************)
ValveIds == <<"AA", "BB", "CC">>

\* every graph over the ids: flow rates from flow_rates (functions from ids),
\* any tunnels to other valves (a tunnel to the valve itself changes
\* nothing: find_distance starts with `from` visited)
GraphsOver(ids, flow_rates) ==
    LET n == Len(ids)
        S == Range(ids)
    IN  {[i \in 1 .. n |-> Valve(ids[i], f[ids[i]], l[ids[i]])] :
            f \in flow_rates,
            l \in {g \in [S -> SUBSET S] : \A v \in S : v \notin g[v]}}

\* the inputs of the tasks: up to three valves, any flow rates up to MaxFlow
Inputs ==
    UNION {GraphsOver(SubSeq(ValveIds, 1, n),
                      [Range(SubSeq(ValveIds, 1, n)) -> 0 .. MaxFlow]) :
              n \in 1 .. Len(ValveIds)}

\* the inputs of the distance table alone: one more valve, every valve but
\* the start working, 1..MaxTunnels tunnels from each valve
DistValveIds == <<"AA", "BB", "CC", "DD">>

DistInputs ==
    {vs \in GraphsOver(DistValveIds,
                       {[id \in Range(DistValveIds) |->
                            IF id = Start THEN 0 ELSE MaxFlow]}) :
        \A i \in DOMAIN vs : Cardinality(vs[i].leads_to) \in 1 .. MaxTunnels}

\* the sample of Advent of Code 2022, day 16
SampleValves ==
    << Valve("AA", 0, {"DD", "II", "BB"}),
       Valve("BB", 13, {"CC", "AA"}),
       Valve("CC", 2, {"DD", "BB"}),
       Valve("DD", 20, {"CC", "AA", "EE"}),
       Valve("EE", 3, {"FF", "DD"}),
       Valve("FF", 0, {"EE", "GG"}),
       Valve("GG", 0, {"FF", "HH"}),
       Valve("HH", 22, {"GG"}),
       Valve("II", 0, {"AA", "JJ"}),
       Valve("JJ", 21, {"II"}) >>

\* A two-way chain of U8 valves is the longest on which find_distance stays
\* within u8: its ends are U8 - 1 tunnels apart.  The inputs below are such
\* chains with up to three valves of interest (the start among them) near
\* the two ends; every other valve of the chain has flow rate 0, is in no
\* ValveMap, and is left out together with its table entries, which
\* find_max_score never reads.  The table of a two-way chain holds the
\* difference of the positions whatever the iteration order.
ChainPositions == {0, 1, U8 - 2, U8 - 1}

ChainTable(ids, pos) ==
    [k \in {Key(a, b) : a, b \in ids} \ {Key(a, a) : a \in ids} |->
        LET ab == CHOOSE ab \in ids \X ids :
                      ab[1] # ab[2] /\ Key(ab[1], ab[2]) = k
            d == pos[ab[1]] - pos[ab[2]]
        IN  IF d < 0 THEN -d ELSE d]

ChainInputs ==
    UNION {
        {[valves |-> [i \in 1 .. n |-> Valve(ValveIds[i], f[i], {})],
          distances |-> ChainTable({ValveIds[i] : i \in 1 .. n},
                                   [id \in {ValveIds[i] : i \in 1 .. n} |->
                                       pos[CHOOSE i \in 1 .. n : ValveIds[i] = id]])] :
            f \in [1 .. n -> 0 .. MaxFlow],
            pos \in {q \in [1 .. n -> ChainPositions] :
                        \A i, j \in 1 .. n : i # j => q[i] # q[j]}} :
        n \in 2 .. Len(ValveIds)}

(***************************************************************************)
(* The state machine.                                                      *)
(***************************************************************************)
InitWith(inputs, tasks) ==
    /\ valves \in inputs
    /\ task \in tasks
    /\ pc = "parsed"
    /\ iter_order = <<>>
    /\ distances = <<>>
    /\ minutes = 0
    /\ max_score = 0
    /\ calls = {}
    /\ stack = <<>>

Init == InitWith(Inputs, {1, 2})

\* day_16.rs:55 and 82
FindDistances ==
    /\ pc = "parsed"
    /\ \E order \in HashOrders(valves) :
          LET r == FindDistancesBetweenValves(valves, order)
          IN  /\ iter_order' = order
              /\ pc' = IF r.panicked THEN "panicked" ELSE "mapped"
              /\ distances' = IF r.panicked THEN <<>> ELSE r.table
    /\ UNCHANGED <<valves, task, minutes, max_score, calls, stack>>

\* day_16.rs:57-64; the budget is 30 in the source and a parameter here.
\* Where a u8 operation of the search overflows, the run ends in a panic
\* (overflow checks on) or goes on with the wrapped value (checks off).
Task1 ==
    /\ pc = "mapped"
    /\ task = 1
    /\ \E budget \in Budgets :
          /\ minutes' = budget
          /\ \/ /\ pc' = "done"
                /\ max_score' = SolveSingleAgent(valves, distances, budget)
             \/ /\ SingleAgentOverflows(valves, distances, budget)
                /\ pc' = "search_panicked"
                /\ max_score' = max_score
    /\ UNCHANGED <<valves, task, iter_order, distances, calls, stack>>

\* day_16.rs:84-149; the budget is 26 in the source and a parameter here.
\* An overflow in any of the searches ends the run as in Task1.
Task2 ==
    /\ pc = "mapped"
    /\ task = 2
    /\ \E budget \in Budgets :
          /\ minutes' = budget
          /\ \/ /\ pc' = "done"
                /\ calls' = DivisionCalls(valves, distances, budget)
                /\ max_score' = FoldMax(calls')
             \/ /\ TwoAgentOverflows(valves, distances, budget)
                /\ pc' = "search_panicked"
                /\ UNCHANGED <<calls, max_score>>
    /\ UNCHANGED <<valves, task, iter_order, distances, stack>>

\* The search of task 1 call by call, for tables whose entries keep the u8
\* arithmetic of the search within range (the overflow is in Task1).  A frame holds the locals of one call
\* of find_max_score: cur_path (its own Vec), minutes_left, my_score, the
\* part of possible_next_valves the iterator has not reached yet, and the
\* maximum of the results returned so far (NoScore: none yet).  The valves
\* come out of list_all_valves in the order of a HashMap's keys, so any
\* valve not yet reached may be the next one.
NoScore == -1

Frame(cur_path, map, minutes_left) ==
    [cur_path |-> cur_path,
     minutes_left |-> minutes_left,
     possible_next_valves |-> PossibleNextValves(cur_path, map, minutes_left),
     my_score |-> GetFlowRate(map, CurValve(cur_path)) * minutes_left,
     path_with_highest_score |-> NoScore]

\* day_16.rs:57-59: the map is built and the top-level call entered
Search ==
    /\ pc = "mapped"
    /\ task = 1
    /\ \E budget \in Budgets :
          /\ minutes' = budget
          /\ stack' = <<Frame(<<Start>>,
                              ValveMapFrom(RelevantValves(valves), distances),
                              budget)>>
    /\ pc' = "searching"
    /\ UNCHANGED <<valves, task, iter_order, distances, max_score, calls>>

\* day_16.rs:269-275: the innermost call enters the call for one more of
\* its candidates, with a path of its own
Recurse ==
    /\ pc = "searching"
    /\ LET top == stack[Len(stack)]
           map == ValveMapFrom(RelevantValves(valves), distances)
       IN  \E next \in top.possible_next_valves :
               stack' =
                   [stack EXCEPT ![Len(stack)].possible_next_valves = @ \ {next}]
                   \o <<Frame(top.cur_path \o <<next>>, map,
                              MinutesLeftAfter(top.cur_path, map,
                                               top.minutes_left, next))>>
    /\ UNCHANGED <<valves, task, pc, iter_order, distances, minutes, max_score,
                   calls>>

\* the innermost call, with an equal path handed back to its caller: what a
\* search with one shared path that is never shortened would do
ReturnKeepsPath ==
    /\ pc = "searching"
    /\ stack[Len(stack)].possible_next_valves = {}
    /\ LET top == stack[Len(stack)]
           result == top.my_score + Max({0, top.path_with_highest_score})
       IN  IF Len(stack) = 1
           THEN /\ max_score' = result
                /\ pc' = "done"
                /\ stack' = <<>>
           ELSE /\ stack' =
                      [SubSeq(stack, 1, Len(stack) - 1)
                          EXCEPT ![Len(stack) - 1].path_with_highest_score =
                                      Max({@, result}),
                                 ![Len(stack) - 1].cur_path = top.cur_path]
                /\ UNCHANGED <<max_score, pc>>
    /\ UNCHANGED <<valves, task, iter_order, distances, minutes, calls>>

\* day_16.rs:276-278: the innermost call has been through all its
\* candidates and returns my_score + path_with_highest_score.unwrap_or(0);
\* its caller's max() takes the result in, the top-level caller formats it
Return ==
    /\ pc = "searching"
    /\ stack[Len(stack)].possible_next_valves = {}
    /\ LET top == stack[Len(stack)]
           result == top.my_score + Max({0, top.path_with_highest_score})
       IN  IF Len(stack) = 1
           THEN /\ max_score' = result
                /\ pc' = "done"
                /\ stack' = <<>>
           ELSE /\ stack' =
                      [SubSeq(stack, 1, Len(stack) - 1)
                          EXCEPT ![Len(stack) - 1].path_with_highest_score =
                                      Max({@, result})]
                /\ UNCHANGED <<max_score, pc>>
    /\ UNCHANGED <<valves, task, iter_order, distances, minutes, calls>>

Next == FindDistances \/ Task1 \/ Task2

Spec == Init /\ [][Next]_vars

\* the distance table alone, over the graphs of DistInputs
InitDist == InitWith(DistInputs, {1})

NextDist == FindDistances

SpecDist == InitDist /\ [][NextDist]_vars

\* both tasks on the long chains, from the table find_distances_between_valves
\* returns on them
InitChain ==
    /\ \E input \in ChainInputs :
          /\ valves = input.valves
          /\ distances = input.distances
    /\ task \in {1, 2}
    /\ pc = "mapped"
    /\ iter_order = IdSeq(valves)
    /\ minutes = 0
    /\ max_score = 0
    /\ calls = {}
    /\ stack = <<>>

NextChain == Task1 \/ Task2

SpecChain == InitChain /\ [][NextChain]_vars

\* task 1 with the search run call by call, on the graphs of three valves
\* in which every valve has a tunnel
StepInputs ==
    {vs \in Inputs :
        /\ Len(vs) = Len(ValveIds)
        /\ \A i \in DOMAIN vs : vs[i].leads_to # {}}

InitSteps == InitWith(StepInputs, {1})

NextSteps == FindDistances \/ Search \/ Recurse \/ Return

SpecSteps == InitSteps /\ [][NextSteps]_vars

\* task 1 on the graphs of four valves of DistInputs whose tunnels all run
\* both ways, as the puzzle's do
FourInputs ==
    {vs \in DistInputs :
        \A i, j \in DOMAIN vs :
            vs[j].id \in vs[i].leads_to => vs[i].id \in vs[j].leads_to}

InitFour == InitWith(FourInputs, {1})

NextFour == FindDistances \/ Task1

SpecFour == InitFour /\ [][NextFour]_vars

\* both tasks on the sample input
InitSample == InitWith({SampleValves}, {1, 2})

SpecSample == InitSample /\ [][Next]_vars

(***************************************************************************)
(* What the claims speak of.                                               *)
(***************************************************************************)

\* a working valve: positive flow rate, or the start valve
WorkingIds(vs) == {vs[i].id : i \in {j \in DOMAIN vs : vs[j].id = Start \/ vs[j].flow_rate > 0}}

\* the valves reached from `from` by exactly k tunnel traversals
RECURSIVE ReachedIn(_, _, _)
ReachedIn(vs, from, k) ==
    IF k = 0 THEN {from}
    ELSE UNION {ValvesGraph(vs)[v].leads_to : v \in ReachedIn(vs, from, k - 1)}

\* the minimum number of tunnel traversals from `from` to `to`, NoPath if none
HopDistance(vs, from, to) ==
    LET ks == {k \in 0 .. Len(vs) : to \in ReachedIn(vs, from, k)}
    IN  IF ks = {} THEN NoPath ELSE Min(ks)

(***************************************************************************)
(* C5.  For every ordered pair of distinct valves (from, to), the entry    *)
(* of the distance table under "from->to" is the minimum number of tunnel  *)
(* traversals from `from` to `to` in the full graph.                       *)
(***************************************************************************)
C5_TableHoldsHopDistance ==
    pc = "mapped" =>
        \A from, to \in Ids(valves) :
            from # to => distances[Key(from, to)] = HopDistance(valves, from, to)

(***************************************************************************)
(* C6.  In the distance table, distance(a, b) = distance(b, a) for all     *)
(* pairs of working valves.                                                *)
(***************************************************************************)
C6_DistanceSymmetry ==
    pc = "mapped" =>
        \A a, b \in WorkingIds(valves) :
            a # b => distances[Key(a, b)] = distances[Key(b, a)]

\* a table was built for a graph in which two working valves are farther
\* apart in one direction than in the other
C6_Witness ==
    /\ pc = "mapped"
    /\ \E a, b \in WorkingIds(valves) :
          /\ a # b
          /\ HopDistance(valves, a, b) # HopDistance(valves, b, a)
          /\ distances[Key(a, b)] = distances[Key(b, a)]

(***************************************************************************)
(* C7.  In the distance table, distance(a, c) <= distance(a, b) +          *)
(* distance(b, c) for all working valves a, b, c.                          *)
(***************************************************************************)
C7_TriangleInequality ==
    pc = "mapped" =>
        \A a, b, c \in WorkingIds(valves) :
            (a # b /\ b # c /\ a # c) =>
                distances[Key(a, c)] <= distances[Key(a, b)] + distances[Key(b, c)]

\* the best plan of one agent, from the graph alone

FlowRateOf(vs, id) == ValvesGraph(vs)[id].flow_rate

\* the ordered sequences of distinct working valves
Plans(vs) == UNION {Arrangements(S) : S \in SUBSET WorkingIds(vs)}

\* the pressure a plan releases when followed from valve `at` with
\* time_left minutes, -1 if some valve of it cannot be opened in time
RECURSIVE PlanPressure(_, _, _, _)
PlanPressure(vs, plan, at, time_left) ==
    IF plan = <<>> THEN 0
    ELSE LET d == HopDistance(vs, at, Head(plan))
             left == time_left - d - 1
             rest == PlanPressure(vs, Tail(plan), Head(plan), left)
         IN  IF d = NoPath \/ left < 0 \/ rest < 0 THEN -1
             ELSE FlowRateOf(vs, Head(plan)) * left + rest

BestPlanPressure(vs, budget) ==
    Max({0} \cup {PlanPressure(vs, plan, Start, budget) : plan \in Plans(vs)})

(***************************************************************************)
(* C1.  The single-agent solver returns the maximum, over all ordered      *)
(* sequences of distinct working valves that can be reached and opened     *)
(* within the budget (travel = shortest hop distance, opening = 1 minute), *)
(* of the sum over opened valves of flow_rate x remaining time after       *)
(* opening.                                                                *)
(***************************************************************************)
C1_SingleAgentIsBestPlan ==
    (pc = "done" /\ task = 1) => max_score = BestPlanPressure(valves, minutes)

\* the best division of the valves between two agents

\* the reduced map of one agent: the start valve and the valves of S
MapOf(vs, dist, S) ==
    ValveMapFrom(SelectSeq(vs, LAMBDA v : v.id = Start \/ v.id \in S), dist)

PartitionScore(vs, dist, budget, mine, theirs) ==
    FindMaxScore(<<Start>>, MapOf(vs, dist, mine), budget)
    + FindMaxScore(<<Start>>, MapOf(vs, dist, theirs), budget)

BestPartitionScore(vs, dist, budget) ==
    LET others == WorkingIds(vs) \ {Start}
    IN  Max({PartitionScore(vs, dist, budget, mine, others \ mine) :
                mine \in SUBSET others})

(***************************************************************************)
(* C2.  The two-agent solver returns the maximum, over every partition of  *)
(* the working valves other than the start into "mine" and "theirs", of    *)
(* max_score(start, {start}, budget, map(mine)) +                          *)
(* max_score(start, {start}, budget, map(theirs)).                         *)
(***************************************************************************)
C2_TwoAgentIsBestPartition ==
    (pc = "done" /\ task = 2) =>
        max_score = BestPartitionScore(valves, distances, minutes)

\* task 2 ended on a graph where splitting the valves beats giving them
\* all to one agent
C2_Witness ==
    /\ pc = "done"
    /\ task = 2
    /\ \E c \in calls : c.mine # {} /\ c.theirs # {} /\ c.score = max_score
    /\ max_score > PartitionScore(valves, distances, minutes,
                                  WorkingIds(valves) \ {Start}, {})

(***************************************************************************)
(* C3.  On the sample graph with budget 30 the single-agent solver         *)
(* returns 1651.                                                           *)
(***************************************************************************)
C3_SampleSingleAgent ==
    (pc = "done" /\ task = 1 /\ minutes = Task1Minutes /\ valves = SampleValves)
        => max_score = 1651

\* task 1 ended on the sample with the budget of the source
C3_Witness ==
    /\ pc = "done" /\ task = 1 /\ minutes = Task1Minutes
    /\ valves = SampleValves
    /\ max_score = 1651

(***************************************************************************)
(* C4.  On the sample graph with budget 26 per agent the two-agent solver  *)
(* returns 1707.                                                           *)
(***************************************************************************)
C4_SampleTwoAgent ==
    (pc = "done" /\ task = 2 /\ minutes = Task2Minutes /\ valves = SampleValves)
        => max_score = 1707

\* task 2 ended on the sample with the budget of the source, the best
\* division giving valves to both agents
C4_Witness ==
    /\ pc = "done" /\ task = 2 /\ minutes = Task2Minutes
    /\ valves = SampleValves
    /\ \E c \in calls : c.score = 1707 /\ c.mine # {} /\ c.theirs # {}

\* the maps and paths of a run

\* the maps the run searched: the one of task 1, or both maps of every
\* division of task 2
SearchedMaps ==
    IF task = 1 THEN {ValveMapFrom(RelevantValves(valves), distances)}
    ELSE UNION {{MapOf(valves, distances, c.mine), MapOf(valves, distances, c.theirs)} :
                   c \in calls}

\* the paths find_max_score can be called with on a map: the start valve
\* followed by distinct other valves of the map
PathsOf(map) ==
    {<<Start>> \o rest :
        rest \in UNION {Arrangements(S) : S \in SUBSET (ListAllValves(map) \ {Start})}}

\* the score of the run against the scores of every other budget, on every
\* path; the run's own result max_score is the case path = <<Start>>
(***************************************************************************)
(* C8.  For every map, current valve and visited path, and all budgets     *)
(* t1 <= t2, find_max_score with budget t2 returns a value not smaller     *)
(* than with budget t1.                                                    *)
(***************************************************************************)
C8_BudgetMonotone ==
    pc = "done" =>
        /\ \A map \in SearchedMaps : \A path \in PathsOf(map) : \A t \in Budgets :
              /\ t <= minutes =>
                    FindMaxScore(path, map, t) <= FindMaxScore(path, map, minutes)
              /\ t >= minutes =>
                    FindMaxScore(path, map, t) >= FindMaxScore(path, map, minutes)
        /\ task = 1 =>
              \A t \in Budgets :
                  /\ t <= minutes => SolveSingleAgent(valves, distances, t) <= max_score
                  /\ t >= minutes => SolveSingleAgent(valves, distances, t) >= max_score

\* a search ended whose score is strictly higher than with one minute less
\* and strictly lower than with one minute more
C8_Witness ==
    /\ pc = "done" /\ task = 1
    /\ minutes \in 1 .. MaxBudget - 1
    /\ SolveSingleAgent(valves, distances, minutes - 1) < max_score
    /\ max_score < SolveSingleAgent(valves, distances, minutes + 1)
    /\ Cardinality(WorkingIds(valves)) > 2

(***************************************************************************)
(* C9.  find_max_score called with path [v] and minutes_left = 0 returns   *)
(* 0, for any valve v and any map.                                         *)
(***************************************************************************)
C9_ZeroBudget ==
    pc = "done" =>
        /\ \A map \in SearchedMaps : \A v \in ListAllValves(map) :
              FindMaxScore(<<v>>, map, 0) = 0
        /\ (task = 1 /\ minutes = 0) => max_score = 0

\* task 1 ran with budget 0 on a graph whose start valve has a positive
\* flow rate and a working neighbour
C9_Witness ==
    /\ pc = "done" /\ task = 1 /\ minutes = 0
    /\ FlowRateOf(valves, Start) > 0
    /\ \E v \in WorkingIds(valves) \ {Start} : distances[Key(Start, v)] = 1
    /\ max_score = 0

(***************************************************************************)
(* C10.  explore_division_of_labor with S as "mine" and its complement as  *)
(* "theirs" returns the same summed score as with the complement as        *)
(* "mine" and S as "theirs", for every subset S of the working valves.     *)
(***************************************************************************)
C10_PartitionSymmetry ==
    (pc = "done" /\ task = 2) =>
        /\ \A c \in calls :
              c.score = ExploreDivisionOfLabor(c.theirs, c.mine, RelevantValves(valves),
                                               distances, minutes)
        /\ \A S \in SUBSET Ids(WorkingValves(valves)) :
              ExploreDivisionOfLabor(S, Ids(WorkingValves(valves)) \ S,
                                     RelevantValves(valves), distances, minutes)
              = ExploreDivisionOfLabor(Ids(WorkingValves(valves)) \ S, S,
                                       RelevantValves(valves), distances, minutes)

\* task 2 scored a division whose two agents score differently
C10_Witness ==
    /\ pc = "done" /\ task = 2
    /\ \E c \in calls :
          /\ c.mine # {} /\ c.theirs # {}
          /\ FindMaxScore(<<Start>>, MapOf(valves, distances, c.mine), minutes)
             # FindMaxScore(<<Start>>, MapOf(valves, distances, c.theirs), minutes)
          /\ c.score > 0

(***************************************************************************)
(* C11.  On a graph that contains only the start valve, both the           *)
(* single-agent and the two-agent solver return 0 for any budget.          *)
(***************************************************************************)
C11_OnlyStartValveScoresZero ==
    (pc = "done" /\ Len(valves) = 1) => max_score = 0

\* the valves with a positive flow rate
FlowingIds(vs) == {vs[i].id : i \in {j \in DOMAIN vs : vs[j].flow_rate > 0}}

(***************************************************************************)
(* C12.  On a graph with a single working valve, at distance d from the    *)
(* start and with flow rate r, the single-agent solver with budget B       *)
(* returns r x (B - d - 1) when B > d, else 0.                             *)
(***************************************************************************)
C12_SingleWorkingValve ==
    (/\ pc = "done" /\ task = 1
     /\ Cardinality(FlowingIds(valves)) = 1 /\ Start \notin FlowingIds(valves)) =>
        LET v == CHOOSE v \in FlowingIds(valves) : TRUE
            d == HopDistance(valves, Start, v)
            r == FlowRateOf(valves, v)
        IN  max_score = IF minutes > d THEN r * (minutes - d - 1) ELSE 0

(***************************************************************************)
(* C13.  find_distances_between_valves panics when no path exists between  *)
(* a pair of working valves, and only then: on a graph in which every      *)
(* working valve can reach every other working valve it returns a table.   *)
(***************************************************************************)
C13_PanicsIffWorkingPairUnreachable ==
    pc # "parsed" =>
        (pc = "panicked" <=>
            \E a, b \in WorkingIds(valves) :
                a # b /\ HopDistance(valves, a, b) = NoPath)

(***************************************************************************)
(* C14.  find_max_score is total: on a map that has a table entry for      *)
(* every pair of its valves, for a path of its valves and any remaining    *)
(* time >= 0, it returns a value without panicking; with a remaining time  *)
(* of zero no valve is a candidate.                                        *)
(***************************************************************************)
C14_SearchIsTotal ==
    /\ pc # "search_panicked"
    /\ pc = "done" =>
          \A map \in SearchedMaps : \A path \in PathsOf(map) :
              PossibleNextValves(path, map, 0) = {}

(***************************************************************************)
(* C15.  The computation is deterministic: for a fixed graph and budget    *)
(* the distance table and the results of both solvers are the same         *)
(* whatever order the hash map hands the valves out in.                    *)
(***************************************************************************)
C15_SameWhateverTheOrder ==
    pc \in {"mapped", "done"} =>
        \A order \in HashOrders(valves) :
            LET other == FindDistancesBetweenValves(valves, order).table
            IN  /\ other = distances
                /\ pc = "done" =>
                      max_score = IF task = 1
                                  THEN SolveSingleAgent(valves, other, minutes)
                                  ELSE SolveTwoAgent(valves, other, minutes)

\* the valves a call recursed into: the last valves of the calls whose path
\* is the call's path and one valve more
RecursedInto(call, all_calls) ==
    {CurValve(c.cur_path) :
        c \in {c \in all_calls :
                  /\ Len(c.cur_path) = Len(call.cur_path) + 1
                  /\ SubSeq(c.cur_path, 1, Len(call.cur_path)) = call.cur_path}}

(***************************************************************************)
(* C16.  In every call of find_max_score the valves recursed into are      *)
(* exactly the valves of the map that are not in the current path and      *)
(* whose distance d from the current valve satisfies                       *)
(* d + 1 <= remaining time.                                                *)
(***************************************************************************)
C16_CandidatesAreUnvisitedAndInTime ==
    pc = "done" =>
        \A map \in SearchedMaps :
            LET all_calls == SearchCalls(<<Start>>, map, minutes)
            IN  \A call \in all_calls :
                    RecursedInto(call, all_calls) =
                        {v \in ListAllValves(map) \ Range(call.cur_path) :
                            map.distances[Key(CurValve(call.cur_path), v)] + 1
                                <= call.minutes_left}

\* what a call of find_max_score adds to the score of the valve it is
\* called at: its result without my_score
BestContinuation(call, map) ==
    FindMaxScore(call.cur_path, map, call.minutes_left)
    - GetFlowRate(map, CurValve(call.cur_path)) * call.minutes_left

(***************************************************************************)
(* C17.  In every call, each feasible candidate (an unvisited valve of the *)
(* map at a distance d with d + 1 <= remaining time) is searched with      *)
(* remaining time - d - 1 and with the candidate appended to the path, it  *)
(* contributes flow_rate(candidate) x (remaining time - d - 1), and the    *)
(* call adds the maximum over the feasible candidates of that contribution *)
(* plus what the candidate's own call adds.                                *)
(***************************************************************************)
C17_MaxOverFeasibleCandidates ==
    pc = "done" =>
        \A map \in SearchedMaps :
            LET all_calls == SearchCalls(<<Start>>, map, minutes)
            IN  \A call \in all_calls :
                    LET cur == CurValve(call.cur_path)
                        d(v) == map.distances[Key(cur, v)]
                        feasible ==
                            {v \in ListAllValves(map) \ Range(call.cur_path) :
                                d(v) + 1 <= call.minutes_left}
                        child(v) ==
                            [cur_path |-> call.cur_path \o <<v>>,
                             minutes_left |-> call.minutes_left - d(v) - 1]
                    IN  /\ \A v \in feasible : child(v) \in all_calls
                        /\ BestContinuation(call, map) =
                              Max({0} \cup
                                  {map.valves[v].flow_rate
                                       * (call.minutes_left - d(v) - 1)
                                   + BestContinuation(child(v), map) :
                                      v \in feasible})

(***************************************************************************)
(* C18.  Whenever no candidate is feasible in a call (every unvisited      *)
(* valve of the map has distance + 1 > remaining time, or none is left),   *)
(* find_max_score returns 0, whatever the current valve and the remaining  *)
(* time.                                                                   *)
(***************************************************************************)
C18_NoCandidateReturnsZero ==
    pc = "done" =>
        \A map \in SearchedMaps :
            \A call \in SearchCalls(<<Start>>, map, minutes) :
                (\A v \in ListAllValves(map) \ Range(call.cur_path) :
                    map.distances[Key(CurValve(call.cur_path), v)] + 1
                        > call.minutes_left)
                => FindMaxScore(call.cur_path, map, call.minutes_left) = 0

(***************************************************************************)
(* C19.  The two-agent enumeration scores no partition twice and never     *)
(* both a partition and its mirror image: each unordered pair of a set of  *)
(* working valves and its complement is passed to                          *)
(* explore_division_of_labor at most once.                                 *)
(***************************************************************************)
C19_EachPartitionOnce ==
    (pc = "done" /\ task = 2) =>
        \A c1, c2 \in calls :
            c1.perm # c2.perm => {c1.mine, c1.theirs} # {c2.mine, c2.theirs}

(***************************************************************************)
(* C20.  Every pair (my_valves, elephant_valves) passed to                 *)
(* explore_division_of_labor consists of two disjoint sets of valve        *)
(* identifiers whose union is the set of working valves without the start  *)
(* valve; the start valve is in neither set.                               *)
(***************************************************************************)
C20_PairsPartitionTheWorkingValves ==
    (pc = "done" /\ task = 2) =>
        \A c \in calls :
            /\ c.mine \cap c.theirs = {}
            /\ c.mine \cup c.theirs = FlowingIds(valves) \ {Start}
            /\ Start \notin c.mine \cup c.theirs

\* the two maps explore_division_of_labor built for a call of the run
MapsOfCall(c) == DivisionMaps(c.mine, c.theirs, RelevantValves(valves), distances)

(***************************************************************************)
(* C21.  For every partition evaluated in two-agent mode, each of the two  *)
(* maps built by explore_division_of_labor holds the start valve and,      *)
(* besides it, exactly the valves of that agent's own set; no valve other  *)
(* than the start is in both maps.                                         *)
(***************************************************************************)
C21_MapsHoldStartAndOwnValves ==
    (pc = "done" /\ task = 2) =>
        \A c \in calls :
            LET mine == ListAllValves(MapsOfCall(c).my_map)
                theirs == ListAllValves(MapsOfCall(c).elephant_map)
            IN  /\ mine = {Start} \cup c.mine
                /\ theirs = {Start} \cup c.theirs
                /\ mine \cap theirs = {Start}

C21_Witness ==
    /\ pc = "done" /\ task = 2
    /\ \E c \in calls :
          /\ c.mine \ {Start} # {}
          /\ c.theirs \ {Start} # {}

(***************************************************************************)
(* C22.  The distance table has entries only for pairs of working valves   *)
(* (flow rate > 0, or the start valve): no key has a zero-flow valve other *)
(* than the start as its source or its target.                             *)
(***************************************************************************)
C22_TableOnlyOverWorkingValves ==
    pc \in {"mapped", "done"} =>
        DOMAIN distances \subseteq
            {Key(a, b) : a, b \in WorkingIds(valves)}

(***************************************************************************)
(* C23.  A ValveMap built for a subset of the valves holds only the        *)
(* distances within that subset: every key 'a->b' it stores has both a and *)
(* b among the valves of the map.                                          *)
(***************************************************************************)
C23_MapHoldsOnlyItsSubTable ==
    pc = "done" =>
        \A map \in SearchedMaps :
            DOMAIN map.distances \subseteq
                {Key(a, b) : a, b \in ListAllValves(map)}

(***************************************************************************)
(* C24.  In every call of find_max_score the path starts with the start    *)
(* valve and contains no valve twice, and the path of a recursive call is  *)
(* the path of its caller with one valve appended; so the length of the    *)
(* path, and the depth of the recursion, never exceeds the number of       *)
(* valves of the map.                                                      *)
(***************************************************************************)
C24_PathsGrowWithoutRepeats ==
    pc = "done" =>
        \A map \in SearchedMaps :
            LET all_calls == SearchCalls(<<Start>>, map, minutes)
            IN  \A call \in all_calls :
                    LET path == call.cur_path
                    IN  /\ path[1] = Start
                        /\ \A i, j \in DOMAIN path : i # j => path[i] # path[j]
                        /\ Len(path) <= Cardinality(ListAllValves(map))
                        /\ Len(path) > 1 =>
                              \E caller \in all_calls :
                                  /\ caller.cur_path = SubSeq(path, 1, Len(path) - 1)
                                  /\ path[Len(path)] \in ListAllValves(map)

C24_Witness ==
    /\ pc = "done"
    /\ \E map \in SearchedMaps :
          /\ Cardinality(ListAllValves(map)) = Len(ValveIds)
          /\ \E call \in SearchCalls(<<Start>>, map, minutes) :
                Len(call.cur_path) = Len(ValveIds)

(***************************************************************************)
(* C25.  The search mutates nothing it shares: a call of find_max_score    *)
(* leaves the valves and the distances unchanged, and the path of every    *)
(* call that stays on the stack is the same before and after each step of  *)
(* the calls within it; the result does not depend on the order in which   *)
(* the sibling branches ran.                                               *)
(***************************************************************************)
C25_SearchMutatesNothingShared ==
    /\ [][pc = "searching" =>
            /\ valves' = valves
            /\ distances' = distances
            /\ \A i \in DOMAIN stack \cap DOMAIN stack' :
                  stack'[i].cur_path = stack[i].cur_path]_vars
    /\ [](pc = "done" =>
            max_score = SolveSingleAgent(valves, distances, minutes))

C25_Witness ==
    /\ pc = "searching"
    /\ Len(stack) = 2
    /\ stack[1].path_with_highest_score # NoScore
    /\ stack[2].possible_next_valves = {}

(***************************************************************************)
(* C26.  The result of find_max_score depends only on the current valve,   *)
(* the set of visited valves and the remaining time: two paths that end at *)
(* the same valve and hold the same valves in a different order give the   *)
(* same result on the same map with the same remaining time.               *)
(***************************************************************************)
C26_ResultDependsOnVisitedSet ==
    pc = "done" =>
        \A map \in SearchedMaps :
            \A visited \in SUBSET ListAllValves(map) : \A cur \in visited :
                \A p, q \in Arrangements(visited \ {cur}) :
                    FindMaxScore(p \o <<cur>>, map, minutes)
                    = FindMaxScore(q \o <<cur>>, map, minutes)

C26_Witness ==
    /\ pc = "done"
    /\ minutes = Task1Minutes
    /\ \E map \in SearchedMaps :
          \E visited \in SUBSET ListAllValves(map) : \E cur \in visited :
              \E p, q \in Arrangements(visited \ {cur}) :
                  /\ p # q
                  /\ PossibleNextValves(p \o <<cur>>, map, minutes) # {}
                  /\ FindMaxScore(p \o <<cur>>, map, minutes)
                     > GetFlowRate(map, cur) * minutes

(***************************************************************************)
(* C27.  In every call of find_max_score, for every candidate that passed  *)
(* the filter, the u8 subtraction minutes_left - distance - 1 does not     *)
(* underflow: the remaining time handed down is >= 0 and strictly smaller  *)
(* than the caller's.                                                      *)
(***************************************************************************)
C27_TimeHandedDownShrinks ==
    pc = "done" =>
        \A map \in SearchedMaps :
            \A call \in SearchCalls(<<Start>>, map, minutes) :
                \A next \in PossibleNextValves(call.cur_path, map,
                                              call.minutes_left) :
                    /\ call.minutes_left
                       - GetDistance(map, CurValve(call.cur_path), next) - 1 >= 0
                    /\ MinutesLeftAfter(call.cur_path, map,
                                        call.minutes_left, next)
                       < call.minutes_left

(***************************************************************************)
(* C28.  For every graph and budget the two-agent result is at least the   *)
(* single-agent result with the same budget: the enumeration includes the  *)
(* division that leaves the elephant without a valve.                      *)
(***************************************************************************)
C28_TwoAgentsAtLeastOne ==
    (pc = "done" /\ task = 2) =>
        /\ max_score >= SolveSingleAgent(valves, distances, minutes)
        /\ \E c \in calls :
              /\ c.theirs = {}
              /\ c.score >= SolveSingleAgent(valves, distances, minutes)

C28_Witness ==
    /\ pc = "done" /\ task = 2
    /\ SolveSingleAgent(valves, distances, minutes) > 0
    /\ max_score > SolveSingleAgent(valves, distances, minutes)
    /\ FlowRateOf(valves, Start) = 0

\* the valves with the flow rate of the start valve set to 0
ZeroStart(vs) ==
    [i \in DOMAIN vs |->
        IF vs[i].id = Start THEN [vs[i] EXCEPT !.flow_rate = 0] ELSE vs[i]]

(***************************************************************************)
(* C29.  The top-level call find_max_score([start], map, B) adds           *)
(* flow_rate(start) x B to its result: a start valve with a positive flow  *)
(* rate is scored as if it were open for the whole budget, and the result  *)
(* is that of the other valves alone only when the start valve's flow rate *)
(* is 0.  Task 2 makes two such calls for every division.                  *)
(***************************************************************************)
C29_StartValveScoredForWholeBudget ==
    pc = "done" =>
        LET start_score == FlowRateOf(valves, Start) * minutes
        IN  /\ task = 1 =>
                  max_score = start_score
                      + SolveSingleAgent(ZeroStart(valves), distances, minutes)
            /\ task = 2 =>
                  max_score = 2 * start_score
                      + SolveTwoAgent(ZeroStart(valves), distances, minutes)

C29_Witness ==
    /\ pc = "done" /\ task = 1
    /\ FlowRateOf(valves, Start) > 0
    /\ minutes = Task1Minutes
    /\ max_score > FlowRateOf(valves, Start) * minutes

\* a valve adds to the score of the search on a map when the score changes
\* with the valve's flow rate set to 0
AddsToScore(v, map, budget) ==
    /\ v \in ListAllValves(map)
    /\ FindMaxScore(<<Start>>, map, budget)
       # FindMaxScore(<<Start>>,
                      [map EXCEPT !.valves[v].flow_rate = 0],
                      budget)

(***************************************************************************)
(* C30.  In two-agent mode no valve's pressure is counted for both agents: *)
(* for every division evaluated, each valve adds to at most one of the two *)
(* scores summed by explore_division_of_labor, the start valve included    *)
(* when its flow rate is positive.                                         *)
(***************************************************************************)
C30_NoValveCountedTwice ==
    (pc = "done" /\ task = 2) =>
        \A c \in calls : \A v \in Ids(valves) :
            ~ /\ AddsToScore(v, MapsOfCall(c).my_map, minutes)
              /\ AddsToScore(v, MapsOfCall(c).elephant_map, minutes)

====
